---- MODULE Spec2Model ----
(***************************************************************************)
(* Model of the Universal File Converter: the Express server (server.js:   *)
(* upload intake, POST /convert handler, the four conversion operations,   *)
(* delivery and cleanup, port negotiation at startup) and the browser      *)
(* client (public/script.js: file selection and target-format gating).     *)
(*                                                                         *)
(* Strings are sequences of one-character strings, so that toLowerCase,    *)
(* trim, path.extname and path.basename are computed and not assumed.      *)
(* A path is a sequence of names; the scratch areas are the one-name       *)
(* paths <<"uploads">> and <<"outputs">>.                                  *)
(***************************************************************************)
EXTENDS Integers, Sequences, FiniteSets, Bags, TLC

VARIABLES
    \* ---- server: POST /convert ----
    input,      \* per request: the multipart body the client sent
    platform,   \* process.platform / availability of pdf-poppler
    now,        \* the reading Date.now() returns
    fs,         \* the files and directories under uploads/ and outputs/
    h,          \* per request: position and locals of the route handler
    resp,       \* per request: the HTTP responses sent, in order
    cleanups,   \* per request: how many times a cleanup block was entered
    invoked,    \* per request: conversion operations / external tools invoked
    \* ---- server: startup ----
    envPort,    \* process.env.PORT (a digit string) or unset
    busy,       \* ports on which listen fails with EADDRINUSE
    denied,     \* ports on which listen fails with another error (EACCES)
    st,         \* position, current port and attempts of start()/tryListen
    \* ---- client ----
    ui          \* selectedFile, the <select> and its options, the button,
                \* the fetches in flight (a bag), the reset timers pending

vars == <<input, platform, now, fs, h, resp, cleanups, invoked,
          envPort, busy, denied, st, ui>>
srvVars == <<input, platform, now, fs, h, resp, cleanups, invoked>>
startVars == <<envPort, busy, denied, st>>

(***************************************************************************)
(* Bounds of the model.                                                    *)
(***************************************************************************)
MaxClock == 1

(***************************************************************************)
(* Strings.                                                                *)
(***************************************************************************)
\* String.prototype.toLowerCase on one character
LowerChar(c) ==
    CASE c = "P" -> "p" [] c = "D" -> "d" [] c = "F" -> "f"
      [] c = "J" -> "j" [] c = "G" -> "g" [] c = "O" -> "o"
      [] c = "C" -> "c" [] c = "X" -> "x" [] c = "N" -> "n"
      [] OTHER -> c

ToLowerCase(s) == [i \in DOMAIN s |-> LowerChar(s[i])]

IsSpace(c) == c = " "

RECURSIVE TrimStart(_)
TrimStart(s) ==
    IF s # <<>> /\ IsSpace(Head(s)) THEN TrimStart(Tail(s)) ELSE s

RECURSIVE TrimEnd(_)
TrimEnd(s) ==
    IF s # <<>> /\ IsSpace(s[Len(s)]) THEN TrimEnd(SubSeq(s, 1, Len(s) - 1)) ELSE s

\* String.prototype.trim
Trim(s) == TrimEnd(TrimStart(s))

EndsWith(s, suf) ==
    /\ Len(suf) <= Len(s)
    /\ SubSeq(s, Len(s) - Len(suf) + 1, Len(s)) = suf

\* index of the last "." of a name, 0 when there is none
LastDot(s) ==
    LET dots == {i \in DOMAIN s : s[i] = "."}
    IN  IF dots = {} THEN 0 ELSE CHOOSE i \in dots : \A j \in dots : j <= i

\* path.extname of a name without directory part: from the last "." to the
\* end; empty when there is no "." or the only "." is the first character
ExtName(s) ==
    LET d == LastDot(s)
    IN  IF d <= 1 THEN <<>> ELSE SubSeq(s, d, Len(s))

\* path.basename(name, ext): the suffix is removed when the name ends with
\* it (case-sensitively) and is not the suffix itself
BaseName(s, ext) ==
    IF ext # <<>> /\ Len(ext) < Len(s) /\ EndsWith(s, ext)
    THEN SubSeq(s, 1, Len(s) - Len(ext))
    ELSE s

\* decimal digits of a natural number (template-literal interpolation)
DigitChar(d) ==
    CASE d = 0 -> "0" [] d = 1 -> "1" [] d = 2 -> "2" [] d = 3 -> "3"
      [] d = 4 -> "4" [] d = 5 -> "5" [] d = 6 -> "6" [] d = 7 -> "7"
      [] d = 8 -> "8" [] OTHER -> "9"

RECURSIVE Decimal(_)
Decimal(n) ==
    IF n < 10 THEN <<DigitChar(n)>> ELSE Decimal(n \div 10) \o <<DigitChar(n % 10)>>


(***************************************************************************)
(* The scratch areas.                                                      *)
(***************************************************************************)
NoPath == <<>>                          \* null
UPLOADS_DIR == << <<"uploads">> >>
OUTPUTS_DIR == << <<"outputs">> >>

Join(dir, name) == Append(dir, name)    \* path.join(dir, name)
LastName(p) == p[Len(p)]

IsPrefix(d, p) == Len(d) <= Len(p) /\ SubSeq(p, 1, Len(d)) = d

\* fs.pathExists
PathExists(files, p) == \E e \in files : e.path = p

\* fs.remove: the path and everything below it
Remove(files, p) == {e \in files : ~IsPrefix(p, e.path)}

\* fs.ensureDir: nothing happens when the directory is there
EnsureDir(files, p, r) ==
    IF PathExists(files, p) THEN files
    ELSE files \cup {[path |-> p, owner |-> r, dir |-> TRUE]}

\* a file is written at p (created, or overwritten by the writer)
WriteFile(files, p, r) ==
    {e \in files : e.path # p} \cup {[path |-> p, owner |-> r, dir |-> FALSE]}

(***************************************************************************)
(* Upload intake (multer).                                                 *)
(***************************************************************************)
MimeDocx == "application/vnd.openxmlformats-officedocument.wordprocessingml.document"
MimePptx == "application/vnd.openxmlformats-officedocument.presentationml.presentation"
MimeXlsx == "application/vnd.openxmlformats-officedocument.spreadsheetml.sheet"

\* fileFilter's allow-list
AllowedMime == {MimeDocx, MimePptx, MimeXlsx, "application/pdf", "image/jpeg", "image/png"}

\* storage.filename: `${base}-${Date.now()}${ext}`
StorageFilename(originalname, t) ==
    LET ext == ExtName(originalname)
        base == BaseName(originalname, ext)
    IN  base \o <<"-">> \o Decimal(t) \o ext

\* Express' final handler for an error passed to next(err): the status is
\* err.status / err.statusCode when the error carries one, else 500, and the
\* body is an HTML page.  Neither the fileFilter's Error nor multer's
\* LIMIT_FILE_SIZE error carries a status, and the app registers no error
\* middleware.
DefaultErrorResponse == [status |-> 500, body |-> "html"]

JsonError(code) == [status |-> code, body |-> "json"]
FileDownload == [status |-> 200, body |-> "file"]

(***************************************************************************)
(* Conversion router.                                                      *)
(***************************************************************************)
DotPdf  == <<".", "p", "d", "f">>
DotDocx == <<".", "d", "o", "c", "x">>
DotPptx == <<".", "p", "p", "t", "x">>
DotXlsx == <<".", "x", "l", "s", "x">>
DotJpg  == <<".", "j", "p", "g">>
DotJpeg == <<".", "j", "p", "e", "g">>
DotPng  == <<".", "p", "n", "g">>
StrPdf  == <<"p", "d", "f">>
StrJpg  == <<"j", "p", "g">>
StrDocx == <<"d", "o", "c", "x">>

\* the extensions of the compatibility table
GatedExts == {DotPdf, DotDocx, DotPptx, DotXlsx, DotJpg, DotJpeg, DotPng}

\* file names used as inputs: a<ext>, b<ext>
NameA(ext) == <<"a">> \o ext
NameB(ext) == <<"b">> \o ext

\* (req.body.targetFormat || '').toLowerCase().trim()
NormaliseTarget(raw) == Trim(ToLowerCase(raw))

\* the chain with '.jpeg' left out of the image extensions
DispatchWithoutJpeg(ext, targetFormat) ==
    IF ext \in {DotDocx, DotPptx, DotXlsx} /\ targetFormat = StrPdf THEN "officeToPdf"
    ELSE IF ext = DotPdf /\ targetFormat = StrJpg THEN "pdfToJpg"
    ELSE IF ext = DotPdf /\ targetFormat = StrDocx THEN "pdfToDocx"
    ELSE IF ext \in {DotJpg, DotPng} /\ targetFormat = StrPdf THEN "imageToPdf"
    ELSE "none"

\* the if / else-if chain of the route handler
Dispatch(ext, targetFormat) ==
    IF ext \in {DotDocx, DotPptx, DotXlsx} /\ targetFormat = StrPdf THEN "officeToPdf"
    ELSE IF ext = DotPdf /\ targetFormat = StrJpg THEN "pdfToJpg"
    ELSE IF ext = DotPdf /\ targetFormat = StrDocx THEN "pdfToDocx"
    ELSE IF ext \in {DotJpg, DotJpeg, DotPng} /\ targetFormat = StrPdf THEN "imageToPdf"
    ELSE "none"

\* `${baseName}-${Date.now()}`
OutBase(originalname, t) ==
    LET ext == ToLowerCase(ExtName(originalname))
    IN  BaseName(originalname, ext) \o <<"-">> \o Decimal(t)


(***************************************************************************)
(* POST /convert: one handler invocation per request.  Every action is the *)
(* code between two awaits (or callbacks) of one request.                  *)
(***************************************************************************)
Req == {"r1", "r2"}

\* limits: { fileSize: 20 * 1024 * 1024 }
FileSizeLimit == 20 * 1024 * 1024

\* the handler's locals before the handler runs
h0 == [pc |-> "new", file |-> NoPath, uploadPath |-> NoPath, outputPath |-> NoPath,
       outputDirForPdf |-> NoPath, tempDir |-> NoPath, docxPath |-> NoPath,
       thrown |-> FALSE, after |-> "none"]

\* one step of request r: its locals, the file system, a response (or none),
\* operations invoked, whether a cleanup block is entered, the platform seen
StepOn(r, hr, files, sent, ops, enters, pl) ==
    /\ h' = [h EXCEPT ![r] = hr]
    /\ fs' = files
    /\ resp' = [resp EXCEPT ![r] = @ \o sent]
    /\ invoked' = [invoked EXCEPT ![r] = @ \cup ops]
    /\ cleanups' = [cleanups EXCEPT ![r] = @ + enters]
    /\ platform' = pl
    /\ UNCHANGED <<input, now, startVars, ui>>

Step(r, hr, files, sent, ops, enters) == StepOn(r, hr, files, sent, ops, enters, platform)

\* the catch block is entered with the error thrown
Throw(hr) == [hr EXCEPT !.pc = "clean_upload", !.after = "catch"]

\* the positions whose next step reads Date.now(): storage.filename, the
\* handler's outBase, pdfToDocx's tempDir
ReadsClock(r) == h[r].pc \in {"new", "handler", "docx_ensure"}

\* Date.now() advances; the readings are all that is seen of it, so the
\* clock is advanced only when some request is about to read it
Tick ==
    /\ now < MaxClock
    /\ \E r \in Req : ReadsClock(r)
    /\ now' = now + 1
    /\ UNCHANGED <<input, platform, fs, h, resp, cleanups, invoked, startVars, ui>>

\* upload.single('file'): fileFilter, then the disk storage writes the file
Intake(r) ==
    /\ h[r].pc = "new"
    /\ LET in == input[r]
           stored == Join(UPLOADS_DIR, StorageFilename(in.name, now))
       IN  IF ~in.hasFile
           THEN Step(r, [h[r] EXCEPT !.pc = "handler"], fs, <<>>, {}, 0)
           ELSE IF in.mime \notin AllowedMime
           THEN \* cb(new Error('File type not supported...')) -> next(err)
                Step(r, [h[r] EXCEPT !.pc = "done"], fs, <<DefaultErrorResponse>>, {}, 0)
           ELSE Step(r, [h[r] EXCEPT !.pc = IF in.size > FileSizeLimit THEN "limit" ELSE "handler",
                                     !.file = stored],
                     WriteFile(fs, stored, r), <<>>, {}, 0)

\* the upload passed the size limit while being written: multer removes the
\* file it was writing and passes LIMIT_FILE_SIZE to next(err)
MulterLimit(r) ==
    /\ h[r].pc = "limit"
    /\ Step(r, [h[r] EXCEPT !.pc = "done", !.file = NoPath], Remove(fs, h[r].file),
            <<DefaultErrorResponse>>, {}, 0)

\* the handler from its first line to its first await
Route(r) ==
    /\ h[r].pc = "handler"
    /\ LET hr == h[r]
           in == input[r]
           targetFormat == NormaliseTarget(in.target)
           ext == ToLowerCase(ExtName(in.name))
           outBase == OutBase(in.name, now)
           op == Dispatch(ext, targetFormat)
           up == [hr EXCEPT !.uploadPath = hr.file]
       IN  IF hr.file = NoPath THEN
               Step(r, [hr EXCEPT !.pc = "done"], fs, <<JsonError(400)>>, {}, 0)
           ELSE IF targetFormat = <<>> THEN
               Step(r, [hr EXCEPT !.pc = "done"], fs, <<JsonError(400)>>, {}, 0)
           ELSE IF op = "officeToPdf" THEN
               \* officeToPdf up to `await libreConvert(fs.readFileSync(inputPath))`
               LET out == [up EXCEPT !.outputPath = Join(OUTPUTS_DIR, outBase \o DotPdf)]
                   inExt == ToLowerCase(ExtName(LastName(hr.file)))
               IN  IF inExt \notin {DotDocx, DotPptx, DotXlsx} \/ ~PathExists(fs, hr.file)
                   THEN Step(r, Throw(out), fs, <<>>, {op}, 0)
                   ELSE Step(r, [out EXCEPT !.pc = "libre"], fs, <<>>, {op}, 0)
           ELSE IF op = "pdfToJpg" THEN
               Step(r, [up EXCEPT !.pc = "jpg_ensure",
                                  !.outputDirForPdf =
                                      Join(OUTPUTS_DIR, outBase \o <<"-", "p", "a", "g", "e", "s">>)],
                    fs, <<>>, {}, 0)
           ELSE IF op = "pdfToDocx" THEN
               Step(r, [up EXCEPT !.pc = "docx_ensure",
                                  !.outputDirForPdf =
                                      Join(OUTPUTS_DIR, outBase \o <<"-", "d", "o", "c", "x">>)],
                    fs, <<>>, {op}, 0)
           ELSE IF op = "imageToPdf" THEN
               Step(r, [up EXCEPT !.pc = "img_read",
                                  !.outputPath = Join(OUTPUTS_DIR, outBase \o DotPdf)],
                    fs, <<>>, {op}, 0)
           ELSE
               Step(r, [up EXCEPT !.pc = "done"], fs, <<JsonError(400)>>, {}, 0)

(***************************************************************************)
(* officeToPdf                                                             *)
(***************************************************************************)
\* libreConvert(buffer, '.pdf') settles: a PDF buffer, or an error (renderer
\* missing, renderer failure)
LibreConvert(r) ==
    /\ h[r].pc = "libre"
    /\ \E ok \in BOOLEAN :
         Step(r, IF ok THEN [h[r] EXCEPT !.pc = "office_write"] ELSE Throw(h[r]),
              fs, <<>>, {"libreoffice"}, 0)

\* fs.writeFile(outputPath, bytes) settles; a failed write may leave a partial file
WriteOutput(r) ==
    /\ h[r].pc \in {"office_write", "img_write"}
    /\ \E ok \in BOOLEAN, partial \in BOOLEAN :
         /\ ok => partial
         /\ Step(r, IF ok THEN [h[r] EXCEPT !.pc = "download"] ELSE Throw(h[r]),
                 IF partial THEN WriteFile(fs, h[r].outputPath, r) ELSE fs,
                 <<>>, {}, 0)

(***************************************************************************)
(* imageToPdf                                                              *)
(***************************************************************************)
\* fs.readFile(inputPath), then pdf-lib embeds the image and saves the
\* document (it throws on bytes it cannot decode)
ImageBuild(r) ==
    /\ h[r].pc = "img_read"
    /\ \E ok \in BOOLEAN :
         /\ ok => PathExists(fs, h[r].uploadPath)
         /\ Step(r, IF ok THEN [h[r] EXCEPT !.pc = "img_write"] ELSE Throw(h[r]),
                 fs, <<>>, {}, 0)


(***************************************************************************)
(* pdfToJpg                                                                *)
(***************************************************************************)
\* isLinux, else pdfConvertPoppler loaded, else neither
Platforms == {"linux", "poppler", "none"}

Page1 == <<"p", "a", "g", "e", "-", "1", ".", "j", "p", "g">>

\* the handler's own `await fs.ensureDir(outputDirForPdf)`; pdfToJpg is called next
JpgEnsure(r) ==
    /\ h[r].pc = "jpg_ensure"
    /\ Step(r, [h[r] EXCEPT !.pc = "jpg_ensure2"], EnsureDir(fs, h[r].outputDirForPdf, r),
            <<>>, {"pdfToJpg"}, 0)

\* pdfToJpg: `await fs.ensureDir(outputDir)`, then the platform decides:
\* pdftoppm on Linux, pdf-poppler when it loaded, otherwise an error.  The
\* platform is fixed when the process starts; it is first looked at here.
JpgEnsure2(r) ==
    /\ h[r].pc = "jpg_ensure2"
    /\ \E pl \in Platforms :
         /\ platform \in {"unobserved", pl}
         /\ LET files == EnsureDir(fs, h[r].outputDirForPdf, r)
            IN  IF pl = "none"
                THEN StepOn(r, Throw(h[r]), files, <<>>, {}, 0, pl)
                ELSE StepOn(r, [h[r] EXCEPT !.pc = "jpg_tool"], files, <<>>,
                            {IF pl = "linux" THEN "pdftoppm" ELSE "pdf-poppler"}, 0, pl)

\* the rasterizer settles: it failed (missing, non-zero exit) or succeeded,
\* and it wrote page-1.jpg or did not
JpgTool(r) ==
    /\ h[r].pc = "jpg_tool"
    /\ \E ok \in BOOLEAN, wrote \in BOOLEAN :
         /\ (ok \/ wrote) => PathExists(fs, h[r].uploadPath)
         /\ wrote => PathExists(fs, h[r].outputDirForPdf)
         /\ LET first == Join(h[r].outputDirForPdf, Page1)
            IN  Step(r, IF ok THEN [h[r] EXCEPT !.pc = "jpg_check"] ELSE Throw(h[r]),
                     IF wrote THEN WriteFile(fs, first, r) ELSE fs, <<>>, {}, 0)

\* `if (!(await fs.pathExists(firstPage))) throw ...; return firstPage`
JpgCheck(r) ==
    /\ h[r].pc = "jpg_check"
    /\ LET first == Join(h[r].outputDirForPdf, Page1)
       IN  Step(r, IF PathExists(fs, first)
                   THEN [h[r] EXCEPT !.pc = "download", !.outputPath = first]
                   ELSE Throw(h[r]),
                fs, <<>>, {}, 0)

(***************************************************************************)
(* pdfToDocx                                                               *)
(***************************************************************************)
InPdf  == <<"i", "n", ".", "p", "d", "f">>
InDocx == <<"i", "n", ".", "d", "o", "c", "x">>

\* path.join(OUTPUTS_DIR, `lo_${Date.now()}`)
TempDir(t) == Join(OUTPUTS_DIR, <<"l", "o", "_">> \o Decimal(t))

\* path.join(outputDir, `${baseName}.docx`), baseName taken from the upload path
DocxPath(outputDir, inputPath) ==
    LET name == LastName(inputPath)
    IN  Join(outputDir, BaseName(name, ExtName(name)) \o DotDocx)

\* `await fs.ensureDir(outputDir)`, then tempDir is named after Date.now()
DocxEnsure(r) ==
    /\ h[r].pc = "docx_ensure"
    /\ Step(r, [h[r] EXCEPT !.pc = "docx_temp", !.tempDir = TempDir(now)],
            EnsureDir(fs, h[r].outputDirForPdf, r), <<>>, {}, 0)

\* `await fs.ensureDir(tempDir)`; the try block is entered
DocxTemp(r) ==
    /\ h[r].pc = "docx_temp"
    /\ Step(r, [h[r] EXCEPT !.pc = "docx_copy"], EnsureDir(fs, h[r].tempDir, r),
            <<>>, {}, 0)

\* `await fs.copy(inputPath, tempPdf)` settles (fs-extra creates the
\* destination's directory); on success the renderer is started
DocxCopy(r) ==
    /\ h[r].pc = "docx_copy"
    /\ \E ok \in BOOLEAN :
         /\ ok => PathExists(fs, h[r].uploadPath)
         /\ LET tempPdf == Join(h[r].tempDir, InPdf)
            IN  IF ok
                THEN Step(r, [h[r] EXCEPT !.pc = "docx_exec"],
                          WriteFile(EnsureDir(fs, h[r].tempDir, r), tempPdf, r), <<>>,
                          {"libreoffice"}, 0)
                ELSE Step(r, [h[r] EXCEPT !.pc = "docx_finally", !.thrown = TRUE],
                          fs, <<>>, {}, 0)

\* the renderer settles: not found, error exit or timeout (60 s), or exit 0;
\* it wrote in.docx into --outdir or did not
DocxExec(r) ==
    /\ h[r].pc = "docx_exec"
    /\ \E ok \in BOOLEAN, wrote \in BOOLEAN :
         /\ LET tempPdf == Join(h[r].tempDir, InPdf)
                tempDocx == Join(h[r].tempDir, InDocx)
            IN  /\ (ok \/ wrote) => PathExists(fs, tempPdf)
                /\ Step(r, IF ok THEN [h[r] EXCEPT !.pc = "docx_check"]
                                 ELSE [h[r] EXCEPT !.pc = "docx_finally", !.thrown = TRUE],
                        IF wrote THEN WriteFile(EnsureDir(fs, h[r].tempDir, r), tempDocx, r)
                                 ELSE fs,
                        <<>>, {}, 0)

\* `if (!(await fs.pathExists(tempDocx))) throw ...`; then docxPath is named
\* and the move is started
DocxCheck(r) ==
    /\ h[r].pc = "docx_check"
    /\ Step(r, IF PathExists(fs, Join(h[r].tempDir, InDocx))
               THEN [h[r] EXCEPT !.pc = "docx_move",
                                 !.docxPath = DocxPath(h[r].outputDirForPdf, h[r].uploadPath)]
               ELSE [h[r] EXCEPT !.pc = "docx_finally", !.thrown = TRUE],
            fs, <<>>, {}, 0)

\* `await fs.move(tempDocx, docxPath, { overwrite: true })` settles
DocxMove(r) ==
    /\ h[r].pc = "docx_move"
    /\ \E ok \in BOOLEAN :
         LET tempDocx == Join(h[r].tempDir, InDocx)
         IN  /\ ok => PathExists(fs, tempDocx)
             /\ IF ok
                THEN Step(r, [h[r] EXCEPT !.pc = "docx_finally"],
                          WriteFile(EnsureDir(Remove(fs, tempDocx), h[r].outputDirForPdf, r),
                                    h[r].docxPath, r),
                          <<>>, {}, 0)
                ELSE Step(r, [h[r] EXCEPT !.pc = "docx_finally", !.thrown = TRUE],
                          fs, <<>>, {}, 0)

\* finally { await fs.remove(tempDir).catch(() => {}) }; then pdfToDocx
\* returns docxPath or rethrows
DocxFinally(r) ==
    /\ h[r].pc = "docx_finally"
    /\ Step(r, IF h[r].thrown THEN Throw(h[r])
               ELSE [h[r] EXCEPT !.pc = "download", !.outputPath = h[r].docxPath],
            Remove(fs, h[r].tempDir), <<>>, {}, 0)

(***************************************************************************)
(* Delivery and cleanup.                                                   *)
(***************************************************************************)
\* res.download(outputPath, filename, callback): the file is sent with
\* status 200, or sending fails before anything was written (the file is
\* gone or cannot be read) and the callback alone learns of the error; the
\* callback sends nothing.
Download(r) ==
    /\ h[r].pc = "download"
    /\ \E ok \in BOOLEAN :
         /\ ok => PathExists(fs, h[r].outputPath)
         /\ Step(r, [h[r] EXCEPT !.pc = "clean_upload", !.after = "download"], fs,
                 IF ok THEN <<FileDownload>> ELSE <<>>, {}, 0)

\* `if (p && (await fs.pathExists(p))) await fs.remove(p)`
CleanPath(files, p) == IF p # NoPath /\ PathExists(files, p) THEN Remove(files, p) ELSE files

\* first statement of either cleanup block (download callback or catch)
CleanUpload(r) ==
    /\ h[r].pc = "clean_upload"
    /\ Step(r, [h[r] EXCEPT !.pc = "clean_output"], CleanPath(fs, h[r].uploadPath),
            <<>>, {}, 1)

CleanOutput(r) ==
    /\ h[r].pc = "clean_output"
    /\ Step(r, [h[r] EXCEPT !.pc = "clean_dir"], CleanPath(fs, h[r].outputPath),
            <<>>, {}, 0)

\* a cleanup block that forgets the output directory
CleanDirKeepsDirectory(r) ==
    /\ h[r].pc = "clean_dir"
    /\ Step(r, [h[r] EXCEPT !.pc = "done"], fs,
            IF h[r].after = "catch" THEN <<JsonError(500)>> ELSE <<>>, {}, 0)

\* last statement of the cleanup block; the catch block then answers 500
CleanDir(r) ==
    /\ h[r].pc = "clean_dir"
    /\ Step(r, [h[r] EXCEPT !.pc = "done"], CleanPath(fs, h[r].outputDirForPdf),
            IF h[r].after = "catch" THEN <<JsonError(500)>> ELSE <<>>, {}, 0)


(***************************************************************************)
(* Startup: start() and tryListen.  A port value is what JavaScript holds: *)
(* a number (the default) or a string (process.env.PORT); its digits are   *)
(* kept, and + and < act on it as JavaScript's do.                         *)
(***************************************************************************)
DefaultPort == 3000
maxTries == 5
MaxPortNumber == 2 ^ 16 - 1          \* net.Server#listen throws above it

RECURSIVE Digits(_)
Digits(n) == IF n < 10 THEN <<n>> ELSE Append(Digits(n \div 10), n % 10)

RECURSIVE Number(_)
Number(d) == IF d = <<>> THEN 0 ELSE 10 * Number(SubSeq(d, 1, Len(d) - 1)) + d[Len(d)]

\* process.env.PORT || 3000
PORT == IF envPort = <<>> THEN [str |-> FALSE, digits |-> Digits(DefaultPort)]
        ELSE [str |-> TRUE, digits |-> envPort]

\* v + k for a number k: addition of numbers, concatenation when v is a string
JsPlus(v, k) ==
    IF v.str THEN [v EXCEPT !.digits = @ \o Digits(k)]
    ELSE [v EXCEPT !.digits = Digits(Number(@) + k)]

RECURSIVE LexLess(_, _)
LexLess(a, b) ==
    IF b = <<>> THEN FALSE
    ELSE IF a = <<>> THEN TRUE
    ELSE IF Head(a) # Head(b) THEN Head(a) < Head(b)
    ELSE LexLess(Tail(a), Tail(b))

\* v < w: two strings are compared as strings, anything else as numbers
JsLess(v, w) ==
    IF v.str /\ w.str THEN LexLess(v.digits, w.digits)
    ELSE Number(v.digits) < Number(w.digits)

\* `err.code === 'EADDRINUSE' && p < PORT + maxTries`
Retries(p) == JsLess(p, JsPlus(PORT, maxTries))

StartVarsUnchanged == UNCHANGED <<envPort, busy, denied>>

\* start(): ensureDirs(), `let port = PORT`, tryListen(port)
Start ==
    /\ st.pc = "idle"
    /\ st' = [st EXCEPT !.pc = "listen", !.p = PORT.digits, !.str = PORT.str]
    /\ StartVarsUnchanged
    /\ UNCHANGED <<srvVars, ui>>

CurrentPort == [str |-> st.str, digits |-> st.p]

\* app.listen(p) is called with a port it may listen on
Attempt == /\ st.pc = "listen"
           /\ Number(st.p) <= MaxPortNumber

\* the listening callback: resolve()
ListenOk ==
    /\ Attempt
    /\ Number(st.p) \notin busy \cup denied
    /\ st' = [st EXCEPT !.pc = "serving", !.tried = Append(@, Number(st.p))]
    /\ StartVarsUnchanged
    /\ UNCHANGED <<srvVars, ui>>

\* 'error' with EADDRINUSE and the retry condition holds: tryListen(p + 1)
ListenRetry ==
    /\ Attempt
    /\ Number(st.p) \in busy
    /\ Retries(CurrentPort)
    /\ st' = [st EXCEPT !.p = JsPlus(CurrentPort, 1).digits,
                        !.tried = Append(@, Number(st.p))]
    /\ StartVarsUnchanged
    /\ UNCHANGED <<srvVars, ui>>

\* 'error' otherwise: reject(err); start() rejects and the process exits
ListenReject ==
    /\ Attempt
    /\ \/ Number(st.p) \in busy /\ ~Retries(CurrentPort)
       \/ Number(st.p) \in denied \ busy
    /\ st' = [st EXCEPT !.pc = "exit", !.tried = Append(@, Number(st.p))]
    /\ StartVarsUnchanged
    /\ UNCHANGED <<srvVars, ui>>

\* app.listen(p) throws inside the promise executor (port out of range):
\* the promise rejects without an attempt on any port
ListenThrows ==
    /\ st.pc = "listen"
    /\ Number(st.p) > MaxPortNumber
    /\ st' = [st EXCEPT !.pc = "exit"]
    /\ StartVarsUnchanged
    /\ UNCHANGED <<srvVars, ui>>

(***************************************************************************)
(* Client: file selection, target-format gating, Convert.                  *)
(***************************************************************************)
MAX_SIZE_MB == 20
MAX_SIZE_BYTES == MAX_SIZE_MB * 1024 * 1024

MaxInFlight == 2        \* fetches of the page pending at once
MaxTimers == 1          \* 3.5 s reset timers pending at once

NoFile == [name |-> <<>>, type |-> "null", size |-> 0]     \* selectedFile = null

\* the <option> values the script looks up in the <select>
OptionValues == {StrPdf, StrJpg, StrDocx}

\* setConvertEnabled()
setConvertEnabled(u) ==
    LET hasFile == u.file # NoFile
        hasFormat == u.value # <<>>
    IN  [u EXCEPT !.btnDisabled = ~hasFile \/ ~hasFormat]

\* updateFormatOptions() without the correction of a chosen value that the
\* new file disables
updateFormatOptionsKeepsValue(u) ==
    LET name == ToLowerCase(u.file.name)
    IN  IF u.file = NoFile THEN
            setConvertEnabled([u EXCEPT !.value = <<>>, !.disabledOpts = {}])
        ELSE IF EndsWith(name, DotPdf) THEN
            setConvertEnabled([u EXCEPT !.disabledOpts = {StrPdf}])
        ELSE IF \E x \in GatedExts : EndsWith(name, x) THEN
            setConvertEnabled([u EXCEPT !.disabledOpts = {StrJpg, StrDocx}])
        ELSE
            setConvertEnabled([u EXCEPT !.disabledOpts = {}])

\* updateFormatOptions()
updateFormatOptions(u) ==
    LET name == ToLowerCase(u.file.name)
    IN  IF u.file = NoFile THEN
            setConvertEnabled([u EXCEPT !.value = <<>>, !.disabledOpts = {}])
        ELSE IF EndsWith(name, DotDocx) \/ EndsWith(name, DotPptx) \/ EndsWith(name, DotXlsx) THEN
            setConvertEnabled([u EXCEPT !.disabledOpts = {StrJpg, StrDocx},
                                        !.value = IF @ \in {StrJpg, StrDocx} THEN StrPdf ELSE @])
        ELSE IF EndsWith(name, DotPdf) THEN
            setConvertEnabled([u EXCEPT !.disabledOpts = {StrPdf},
                                        !.value = IF @ = StrPdf THEN StrJpg ELSE @])
        ELSE IF EndsWith(name, DotJpg) \/ EndsWith(name, DotJpeg) \/ EndsWith(name, DotPng) THEN
            setConvertEnabled([u EXCEPT !.disabledOpts = {StrJpg, StrDocx},
                                        !.value = IF @ \in {StrJpg, StrDocx} THEN StrPdf ELSE @])
        ELSE
            setConvertEnabled([u EXCEPT !.disabledOpts = {}])

\* setFile(file)
setFile(u, file) ==
    IF file = NoFile THEN setConvertEnabled([u EXCEPT !.file = NoFile])
    ELSE IF file.size > MAX_SIZE_BYTES THEN u
    ELSE IF file.type \notin AllowedMime THEN u
    ELSE updateFormatOptions([u EXCEPT !.file = file])

\* the files a user can drop or pick: (name, type the browser reports, size)
ClientFile(name, type, size) == [name |-> name, type |-> type, size |-> size]

ClientFiles ==
    {ClientFile(NameA(DotPdf), "application/pdf", 2048),
     ClientFile(NameA(<<".", "P", "D", "F">>), "application/pdf", 2048),
     ClientFile(NameA(DotDocx), MimeDocx, 2048),
     ClientFile(NameA(DotPptx), MimePptx, 2048),
     ClientFile(NameA(DotXlsx), MimeXlsx, 2048),
     ClientFile(NameA(DotJpg), "image/jpeg", 2048),
     ClientFile(NameA(DotJpeg), "image/jpeg", 2048),
     ClientFile(NameA(DotPng), "image/png", 2048),
     ClientFile(NameA(<<".", "j", "f", "i", "f">>), "image/jpeg", 2048),
     ClientFile(DotPdf, "application/pdf", 2048),
     ClientFile(NameA(<<".", "t", "x", "t">>), "text/plain", 2048),
     ClientFile(NameB(DotPdf), "application/pdf", MAX_SIZE_BYTES + 1),
     ClientFile(NameB(DotDocx), MimeDocx, MAX_SIZE_BYTES)}

ClientUnchanged == UNCHANGED <<srvVars, startVars>>

\* 'drop' on the drop zone, 'change' on the file input: setFile(file)
SelectFile ==
    /\ \E f \in ClientFiles : ui' = setFile(ui, f)
    /\ ClientUnchanged

\* click on clearFile: setFile(null); updateFormatOptions()
ClearFile ==
    /\ ui' = updateFormatOptions(setFile(ui, NoFile))
    /\ ClientUnchanged

\* 'change' on the <select>: the user picks the placeholder or an option
\* that is not disabled; hideMessage(); setConvertEnabled()
ChangeTarget ==
    /\ \E v \in (OptionValues \ ui.disabledOpts) \cup {<<>>} :
         /\ v # ui.value
         /\ ui' = setConvertEnabled([ui EXCEPT !.value = v])
    /\ ClientUnchanged

\* click on convertBtn (a disabled button gets no click), up to the fetch
ClickConvert ==
    /\ ~ui.btnDisabled
    /\ ui.file # NoFile /\ ui.value # <<>>
    /\ BagCardinality(ui.inFlight) < MaxInFlight
    /\ ui' = [ui EXCEPT !.btnDisabled = TRUE,
                        !.inFlight = @ (+) SetToBag({[name |-> ui.file.name,
                                                     targetFormat |-> ui.value]})]
    /\ ClientUnchanged

\* a fetch settles: on success the reset timer is set; finally
\* showSpinner(false); setConvertEnabled()
FetchSettles ==
    /\ \E x \in BagToSet(ui.inFlight), ok \in BOOLEAN :
         /\ ok => ui.timers < MaxTimers
         /\ ui' = setConvertEnabled(
                      [ui EXCEPT !.inFlight = @ (-) SetToBag({x}),
                                 !.timers = IF ok THEN @ + 1 ELSE @])
    /\ ClientUnchanged

\* the 3.5 s timer: setFile(null); targetFormatSelect.value = '';
\* updateFormatOptions()
ResetTimer ==
    /\ ui.timers > 0
    /\ ui' = updateFormatOptions(
                 [setFile([ui EXCEPT !.timers = @ - 1], NoFile) EXCEPT !.value = <<>>])
    /\ ClientUnchanged

(***************************************************************************)
(* Requests.                                                               *)
(***************************************************************************)
Upload(name, mime, size, target) ==
    [hasFile |-> TRUE, name |-> name, mime |-> mime, size |-> size, target |-> target]

\* a multipart body without the `file` field
NoUpload(target) ==
    [hasFile |-> FALSE, name |-> <<>>, mime |-> "", size |-> 0, target |-> target]

\* original file names: every extension of the table in lower and mixed
\* case, other extensions, no extension, a dot file, two dots
FileNames ==
    {NameA(DotPdf), NameA(<<".", "P", "d", "f">>), NameA(DotDocx), NameA(DotPptx),
     NameA(DotXlsx), NameA(DotJpg), NameA(DotJpeg), NameA(DotPng),
     NameA(<<".", "P", "N", "G">>), NameA(<<".", "g", "i", "f">>), <<"a">>, DotPdf,
     NameA(DotPdf \o DotDocx), NameA(<<".">>)}

\* targetFormat fields: the three formats in several spellings, empty,
\* blank, and formats that do not exist
TargetFormats ==
    {StrPdf, <<"P", "D", "F">>, <<" ", "p", "d", "f", " ">>, StrJpg, <<"J", "p", "g">>,
     StrDocx, <<" ", "D", "O", "C", "X">>, <<>>, <<" ">>, DotPdf, <<"p", "n", "g">>}

Sizes == {2048, FileSizeLimit, FileSizeLimit + 1}

AllRequests ==
    {Upload(n, m, z, t) : n \in FileNames, m \in {"application/pdf", "image/png", "text/plain"},
                          z \in Sizes, t \in TargetFormats}
        \cup {NoUpload(t) : t \in {StrPdf, <<>>}}

\* the requests that are run against each other: every conversion, an
\* unsupported pair, a missing targetFormat, an oversize upload
ConcurrentRequests ==
    <<Upload(NameA(DotPdf), "application/pdf", 2048, StrDocx),
      Upload(NameB(DotPdf), "application/pdf", 2048, StrDocx),
      Upload(NameA(DotPdf), "application/pdf", 2048, StrJpg),
      Upload(NameA(DotDocx), MimeDocx, 2048, StrPdf),
      Upload(NameA(DotPng), "image/png", 2048, StrPdf),
      Upload(NameA(DotPdf), "application/pdf", 2048, StrPdf),
      Upload(NameA(DotPdf), "application/pdf", 2048, <<>>),
      Upload(NameA(DotPdf), "application/pdf", FileSizeLimit + 1, StrJpg)>>

\* the parts of the state the requests do not use
StartIdle ==
    /\ envPort = <<>>
    /\ busy = {}
    /\ denied = {}
    /\ st = [pc |-> "idle", p |-> <<>>, str |-> FALSE, tried |-> <<>>]

UiIdle ==
    ui = [file |-> NoFile, value |-> <<>>, disabledOpts |-> {}, btnDisabled |-> TRUE,
          inFlight |-> EmptyBag, timers |-> 0]

InitRequests(inputs, hs) ==
    /\ input = inputs
    /\ h = hs
    /\ platform = "unobserved"
    /\ now = 0
    /\ fs = {}
    /\ resp = [r \in Req |-> <<>>]
    /\ cleanups = [r \in Req |-> 0]
    /\ invoked = [r \in Req |-> {}]
    /\ StartIdle
    /\ UiIdle

\* two requests in flight, any interleaving; the handler invocations are
\* interchangeable, so each unordered pair of requests is started once
Init ==
    \E i \in DOMAIN ConcurrentRequests, j \in DOMAIN ConcurrentRequests :
        /\ i <= j
        /\ InitRequests([r \in Req |-> ConcurrentRequests[IF r = "r1" THEN i ELSE j]],
                        [r \in Req |-> h0])

\* one request, any upload and any targetFormat
InitOne ==
    \E i \in AllRequests :
        InitRequests([r \in Req |-> IF r = "r1" THEN i ELSE NoUpload(<<>>)],
                     [r \in Req |-> IF r = "r1" THEN h0 ELSE [h0 EXCEPT !.pc = "off"]])

\* no request is made
ServerIdle ==
    /\ input = [r \in Req |-> NoUpload(<<>>)]
    /\ h = [r \in Req |-> [h0 EXCEPT !.pc = "off"]]
    /\ platform = "unobserved"
    /\ now = 0
    /\ fs = {}
    /\ resp = [r \in Req |-> <<>>]
    /\ cleanups = [r \in Req |-> 0]
    /\ invoked = [r \in Req |-> {}]

\* process.env.PORT: unset, or a string of digits
EnvPorts == {<<>>, <<3, 0, 0, 0>>, <<8, 0>>}

\* the ports start() can come to try, given process.env.PORT
RECURSIVE PortsFrom(_, _)
PortsFrom(v, n) ==
    IF n = 0 \/ Number(v.digits) > MaxPortNumber THEN {}
    ELSE {Number(v.digits)} \cup PortsFrom(JsPlus(v, 1), n - 1)

\* the server starts with any of the ports it may try in use or refused
InitStart ==
    /\ envPort \in EnvPorts
    /\ busy \in SUBSET PortsFrom(PORT, maxTries + 2)
    /\ denied \in {{}} \cup {{q} : q \in PortsFrom(PORT, maxTries + 2)}
    /\ st = [pc |-> "idle", p |-> <<>>, str |-> FALSE, tried |-> <<>>]
    /\ ServerIdle
    /\ UiIdle

NextStart == Start \/ ListenOk \/ ListenRetry \/ ListenReject \/ ListenThrows

SpecStart == InitStart /\ [][NextStart]_vars

\* the page as loaded: no file, nothing chosen
InitClient ==
    /\ UiIdle
    /\ ServerIdle
    /\ StartIdle

NextClient ==
    \/ SelectFile
    \/ ClearFile
    \/ ChangeTarget
    \/ ClickConvert
    \/ FetchSettles
    \/ ResetTimer

SpecClient == InitClient /\ [][NextClient]_vars

Next ==
    \/ Tick
    \/ \E r \in Req : Intake(r)
    \/ \E r \in Req : MulterLimit(r)
    \/ \E r \in Req : Route(r)
    \/ \E r \in Req : LibreConvert(r)
    \/ \E r \in Req : WriteOutput(r)
    \/ \E r \in Req : ImageBuild(r)
    \/ \E r \in Req : JpgEnsure(r)
    \/ \E r \in Req : JpgEnsure2(r)
    \/ \E r \in Req : JpgTool(r)
    \/ \E r \in Req : JpgCheck(r)
    \/ \E r \in Req : DocxEnsure(r)
    \/ \E r \in Req : DocxTemp(r)
    \/ \E r \in Req : DocxCopy(r)
    \/ \E r \in Req : DocxExec(r)
    \/ \E r \in Req : DocxCheck(r)
    \/ \E r \in Req : DocxMove(r)
    \/ \E r \in Req : DocxFinally(r)
    \/ \E r \in Req : Download(r)
    \/ \E r \in Req : CleanUpload(r)
    \/ \E r \in Req : CleanOutput(r)
    \/ \E r \in Req : CleanDir(r)

Spec == Init /\ [][Next]_vars

SpecOne == InitOne /\ [][Next]_vars


(***************************************************************************)
(* The claims.                                                             *)
(***************************************************************************)
ConversionOps == {"officeToPdf", "pdfToJpg", "pdfToDocx", "imageToPdf"}

\* what request r created and is still there
Owned(r) == {e \in fs : e.owner = r}

\* the intake stored r's upload (and did not take it back for its size)
Stored(r) == h[r].file # NoPath

Answered(r) == h[r].pc = "done"

\* the Compatibility Table of the specification
CompatTable ==
    {<<DotDocx, StrPdf>>, <<DotPptx, StrPdf>>, <<DotXlsx, StrPdf>>,
     <<DotPdf, StrJpg>>, <<DotPdf, StrDocx>>,
     <<DotJpg, StrPdf>>, <<DotJpeg, StrPdf>>, <<DotPng, StrPdf>>}

TableOp(pair) ==
    CASE pair[1] \in {DotDocx, DotPptx, DotXlsx} -> "officeToPdf"
      [] pair = <<DotPdf, StrJpg>> -> "pdfToJpg"
      [] pair = <<DotPdf, StrDocx>> -> "pdfToDocx"
      [] OTHER -> "imageToPdf"

\* the (extension, target format) pair of a request as the router reads it
PairOf(in) == <<ToLowerCase(ExtName(in.name)), NormaliseTarget(in.target)>>

\* C1: once a request that stored an upload is answered and its handler has
\* finished, nothing the request created is left in uploads/ or outputs/.
C1_NoArtifactsLeft ==
    \A r \in Req :
        (Answered(r) /\ Stored(r) /\ resp[r] # <<>>) => Owned(r) = {}

\* the five validation failures of a request
ValidationError(in) ==
    \/ ~in.hasFile
    \/ in.mime \notin AllowedMime
    \/ in.size > FileSizeLimit
    \/ PairOf(in)[2] = <<>>
    \/ PairOf(in) \notin CompatTable

\* C2: every failure response is JSON {error}, with status 400 for a
\* validation error (type, size, no file, no target, unsupported pair) and
\* 500 for a conversion failure.
C2_FailureStatus ==
    \A r \in Req : \A i \in DOMAIN resp[r] :
        resp[r][i].status # 200 =>
            resp[r][i] = JsonError(IF ValidationError(input[r]) THEN 400 ELSE 500)

\* C3: the router invokes a conversion operation iff the pair is in the
\* table, and then exactly the table's operation; for any other pair the
\* answer is 400, nothing is invoked and nothing appears under outputs/.
C3_DispatchIsTable ==
    \A r \in Req :
        (Stored(r) /\ h[r].pc \notin {"new", "limit", "handler", "off"}) =>
            LET pair == PairOf(input[r])
            IN  IF pair \in CompatTable
                THEN /\ invoked[r] \cap ConversionOps \subseteq {TableOp(pair)}
                     /\ h[r].pc # "jpg_ensure" => TableOp(pair) \in invoked[r]
                ELSE /\ h[r].pc = "done"
                     /\ resp[r] = <<JsonError(400)>>
                     /\ invoked[r] = {}
                     /\ \A e \in fs : e.owner = r => e.path[1] # OUTPUTS_DIR[1]

\* a mixed-case PDF with a padded upper-case target was routed to pdfToDocx
C3_Witness ==
    \E r \in Req :
        /\ input[r].name = NameA(<<".", "P", "d", "f">>)
        /\ input[r].target = <<" ", "D", "O", "C", "X">>
        /\ "pdfToDocx" \in invoked[r]

\* C5: a request whose upload was stored runs its cleanup exactly once.
C5_CleanupOnce ==
    \A r \in Req :
        /\ cleanups[r] <= 1
        /\ (Answered(r) /\ Stored(r)) => cleanups[r] = 1

\* C10: a request that reached the route handler gets exactly one response.
C10_OneResponse ==
    \A r \in Req :
        /\ Len(resp[r]) <= 1
        /\ (Answered(r) /\ (Stored(r) \/ ~input[r].hasFile)) => Len(resp[r]) = 1


\* the scratch paths a request holds
ScratchPaths(r) ==
    {h[r].file, h[r].uploadPath, h[r].outputPath, h[r].outputDirForPdf, h[r].tempDir}
        \ {NoPath}

Live(r) == h[r].pc \notin {"new", "done", "off"}

C4_DistinctPaths ==
    \A r \in Req, q \in Req :
        (r # q /\ Live(r) /\ Live(q)) => ScratchPaths(r) \cap ScratchPaths(q) = {}

\* a step of request r leaves in place everything another request created
C4_NoForeignWrite ==
    \A r \in Req :
        h'[r] # h[r] => \A e \in fs : e.owner # r => e \in fs'

\* C4: under any interleaving, equal file names and equal Date.now()
\* readings included, live requests hold distinct scratch paths and no
\* request overwrites, moves or deletes what another request created.
C4_Isolation == [](C4_DistinctPaths) /\ [][C4_NoForeignWrite]_vars

C9_TempDirRemoved ==
    [][\A r \in Req :
          (h[r].pc = "docx_finally" /\ h'[r].pc # "docx_finally") =>
              /\ ~PathExists(fs', h[r].tempDir)
              /\ ~h[r].thrown =>
                    /\ PathExists(fs', h[r].docxPath)
                    /\ ~IsPrefix(h[r].tempDir, h[r].docxPath)]_vars

\* C6: the ports tried are P, P+1, P+2, ..., at most maxTries of them; the
\* server serves on the first of them that is free; when all of them are in
\* use or another listen error occurs, start() rejects.
C6_PortSequence ==
    LET P == Number(PORT.digits)
        n == Len(st.tried)
    IN  /\ n <= maxTries
        /\ \A i \in 1..n : st.tried[i] = P + i - 1
        /\ \A i \in 1..(n - 1) : st.tried[i] \in busy
        /\ st.pc = "serving" => st.tried[n] \notin busy \cup denied
        /\ st.pc = "exit" => n > 0 /\ st.tried[n] \in busy \cup denied

\* the target formats the table allows for an extension
CompatibleTargets(ext) == {t \in OptionValues : <<ext, t>> \in CompatTable}

\* C8: whenever a file is selected, the enabled options are exactly the
\* targets compatible with its extension and the chosen target is not a
\* disabled option; every pair submitted for such a file is in the table.
C8_Gating ==
    /\ ui.value \notin ui.disabledOpts
    /\ ui.file # NoFile =>
          LET ext == ToLowerCase(ExtName(ui.file.name))
          IN  ext \in GatedExts => OptionValues \ ui.disabledOpts = CompatibleTargets(ext)
    /\ \A x \in BagToSet(ui.inFlight) :
          LET ext == ToLowerCase(ExtName(x.name))
          IN  ext \in GatedExts => <<ext, x.targetFormat>> \in CompatTable

\* a PDF is selected with docx chosen while an office file's conversion to
\* pdf is still in flight
C8_Witness ==
    /\ ui.file.name = NameA(<<".", "P", "D", "F">>)
    /\ ui.value = StrDocx
    /\ [name |-> NameA(DotDocx), targetFormat |-> StrPdf] \in BagToSet(ui.inFlight)

\* C11: while a conversion request of the page is in flight (from the Convert
\* click until its fetch has settled) the Convert button is disabled, so at
\* most one request is in flight at any time, whatever the user does meanwhile
\* (changes the target, selects or drops another file, clears the file) and
\* whenever the reset timer of an earlier conversion fires.
C11_OneInFlight ==
    /\ ui.inFlight # EmptyBag => ui.btnDisabled
    /\ BagCardinality(ui.inFlight) <= 1

====
